---- MODULE Spec2Model ----
(***************************************************************************)
(* Model of src/account.js (class Account of nearlib) together with the    *)
(* collaborators it drives: the NearClient (getNonce,                      *)
(* signAndSubmitTransaction, viewAccount, jsonRpcRequest), the key store,  *)
(* the base58 codec and a remote node that tracks accounts, nonces,        *)
(* balances and active keys.                                               *)
(*                                                                         *)
(* Strings that the code only compares or tests for emptiness (account     *)
(* ids, contract ids) are TLA+ strings.  Base58 strings are sequences of   *)
(* alphabet indices 0..57 (58 stands for a character outside the           *)
(* alphabet); byte buffers are sequences of 0..255; method names are       *)
(* sequences of code points.                                               *)
(***************************************************************************)
EXTENDS Integers, Sequences, FiniteSets, TLC

\* ------------------------------------------------------------------ bounds
MaxNonce == 2          \* getNonce is not answered with a nonce above this one
MaxCalls == 3          \* calls begun in one behaviour

\* ------------------------------------------------------------------ inputs
\* the callers that use the Account object side by side
Callers == {1, 2}
AccountIds == {"alice", "A"}
aliceAccountName == "alice"
\* "3", "16" (a leading '1'), "5R" (two bytes), and a string with a
\* character outside the alphabet
\* base58 keys: "3" is the byte 2; "121" the bytes 0, 58; "15R" the bytes
\* 0, 1, 0; "5S" the bytes 1, 1; the last has a character outside the alphabet
PK_alice == <<2>>
PK_1 == <<0, 1, 0>>
PK_2 == <<0, 4, 24>>
PK_3 == <<4, 25>>
PK_bad == <<58>>
NewAccountIds == {"A"}
\* the inputs of the calls that run side by side
PublicKeyArgs == {PK_1, PK_2}
Amounts == {1000}
FundedBalance == 1500
\* <<contractId, methodName, fundingOwner, fundingAmount>>
Scopes == {<<"", << >>, "", 0>>, <<"contractX", << >>, "", 0>>}
\* the wider inputs of a single call; the method names are "", "m" and "mé"
AllPublicKeyArgs == {PK_alice, PK_bad, PK_3, PK_1, PK_2}
AllAmounts == {0, 1, 1000}
ContractIds == {"", "contractX"}
MethodNames == {<< >>, <<109>>, <<109, 233>>}
FundingOwners == {"alice", ""}
FundingAmounts == {-1, 0, 10}

\* ------------------------------------------------------------------ base58
RECURSIVE ToNat(_, _)
\* value of a big-endian digit sequence
ToNat(digits, base) ==
    IF digits = << >> THEN 0
    ELSE ToNat(SubSeq(digits, 1, Len(digits) - 1), base) * base + digits[Len(digits)]

RECURSIVE ToDigits(_, _)
\* big-endian digits of n, the empty sequence for 0
ToDigits(n, base) ==
    IF n = 0 THEN << >>
    ELSE Append(ToDigits(n \div base, base), n % base)

RECURSIVE LeadingZeros(_)
LeadingZeros(s) ==
    IF s = << >> \/ s[1] # 0 THEN 0 ELSE 1 + LeadingZeros(Tail(s))

Zeros(n) == [i \in 1..n |-> 0]

\* every character is one of the 58 of the alphabet
IsBase58(s) == \A i \in 1..Len(s) : s[i] \in 0..57

\* bs58.decode: each leading '1' is a zero byte, the rest is a number
bs58decode(s) ==
    LET z == LeadingZeros(s)
    IN  Zeros(z) \o ToDigits(ToNat(SubSeq(s, z + 1, Len(s)), 58), 256)

\* KeyPair.encodeBufferInBs58: each leading zero byte is a '1'
encodeBufferInBs58(bytes) ==
    LET z == LeadingZeros(bytes)
    IN  Zeros(z) \o ToDigits(ToNat(SubSeq(bytes, z + 1, Len(bytes)), 256), 58)

\* Buffer.from(methodName): the UTF-8 bytes of the code points (below U+0800)
RECURSIVE Utf8(_)
Utf8(cps) ==
    IF cps = << >> THEN << >>
    ELSE (IF cps[1] < 128 THEN <<cps[1]>>
          ELSE <<192 + (cps[1] \div 64), 128 + (cps[1] % 64)>>) \o Utf8(Tail(cps))

\* --------------------------------------------------- transaction payloads
\* no transaction built yet
NoTx == [type |-> "none"]

\* the payload with an explicit amount of zero
CreateAccountTransaction_ExplicitZero(nonce, originator, newAccountId, publicKey, amount) ==
    [type |-> "CreateAccount", nonce |-> nonce, originator |-> originator,
     newAccountId |-> newAccountId, publicKey |-> publicKey, amount |-> amount]

\* the payload with the nonce after the one that was read
CreateAccountTransaction_NextNonce(nonce, originator, newAccountId, publicKey, amount) ==
    LET createAccount == [type |-> "CreateAccount", nonce |-> nonce + 1,
                          originator |-> originator,
                          newAccountId |-> newAccountId,
                          publicKey |-> publicKey]
    IN  IF amount # 0 THEN createAccount @@ [amount |-> amount]
        ELSE createAccount

\* createAccount, lines 32-42: the payload, with amount only when non-zero
CreateAccountTransaction(nonce, originator, newAccountId, publicKey, amount) ==
    LET createAccount == [type |-> "CreateAccount", nonce |-> nonce,
                          originator |-> originator,
                          newAccountId |-> newAccountId,
                          publicKey |-> publicKey]
    IN  IF amount # 0 THEN createAccount @@ [amount |-> amount]
        ELSE createAccount

Undefined == [undefined |-> TRUE]

\* an access key as soon as a contract or a method is named
AccessKey_ScopedByMethod(contractId, methodName, fundingOwner, fundingAmount) ==
    IF contractId # "" \/ methodName # << >>
    THEN LET k0 == [contractId |-> [value |-> contractId]]
             k1 == IF methodName # << >>
                   THEN k0 @@ [methodName |-> [value |-> Utf8(methodName)]]
                   ELSE k0
             k2 == IF fundingOwner # ""
                   THEN k1 @@ [balanceOwner |-> [value |-> fundingOwner]]
                   ELSE k1
         IN  IF fundingAmount > 0 THEN [amount |-> fundingAmount] @@ k2 ELSE k2
    ELSE Undefined

\* the amount tested as createAccount tests it, against zero
AccessKey_NonZeroAmount(contractId, methodName, fundingOwner, fundingAmount) ==
    IF contractId # ""
    THEN LET k0 == [contractId |-> [value |-> contractId]]
             k1 == IF methodName # << >>
                   THEN k0 @@ [methodName |-> [value |-> Utf8(methodName)]]
                   ELSE k0
             k2 == IF fundingOwner # ""
                   THEN k1 @@ [balanceOwner |-> [value |-> fundingOwner]]
                   ELSE k1
         IN  IF fundingAmount # 0 THEN [amount |-> fundingAmount] @@ k2 ELSE k2
    ELSE Undefined

\* addAccessKey, lines 72-91: undefined unless contractId is non-empty
AccessKey(contractId, methodName, fundingOwner, fundingAmount) ==
    IF contractId # ""
    THEN LET k0 == [contractId |-> [value |-> contractId]]
             k1 == IF methodName # << >>
                   THEN k0 @@ [methodName |-> [value |-> Utf8(methodName)]]
                   ELSE k0
             k2 == IF fundingOwner # ""
                   THEN k1 @@ [balanceOwner |-> [value |-> fundingOwner]]
                   ELSE k1
         IN  IF fundingAmount > 0 THEN [amount |-> fundingAmount] @@ k2 ELSE k2
    ELSE Undefined

\* the payload with the nonce after the one that was read
AddKeyTransaction_NextNonce(nonce, ownersAccountId, newPublicKey, accessKey) ==
    IF accessKey = Undefined
    THEN [type |-> "AddKey", nonce |-> nonce + 1,
          originator |-> ownersAccountId, newKey |-> newPublicKey]
    ELSE [type |-> "AddKey", nonce |-> nonce + 1,
          originator |-> ownersAccountId, accessKey |-> accessKey,
          newKey |-> newPublicKey]

\* addAccessKey, lines 92-97: create() leaves out a property that is undefined
AddKeyTransaction(nonce, ownersAccountId, newPublicKey, accessKey) ==
    IF accessKey = Undefined
    THEN [type |-> "AddKey", nonce |-> nonce,
          originator |-> ownersAccountId, newKey |-> newPublicKey]
    ELSE [type |-> "AddKey", nonce |-> nonce,
          originator |-> ownersAccountId, accessKey |-> accessKey,
          newKey |-> newPublicKey]

\* removeAccessKey, lines 109-113
DeleteKeyTransaction(nonce, ownersAccountId, decodedKey) ==
    [type |-> "DeleteKey", nonce |-> nonce, originator |-> ownersAccountId,
     curKey |-> decodedKey]

\* createAccountWithRandomKey, line 136: { key: keyWithRandomSeed, ...result };
\* the properties spread last win
SpreadKeyResult(keyWithRandomSeed, createAccountResult) ==
    createAccountResult @@ [key |-> keyWithRandomSeed]

\* the entries with the key as the response has it, not encoded
AccountDetails_RawKey(decodedResponse) ==
    [authorizedApps |->
        [i \in 1..Len(decodedResponse) |->
            [publicKey |-> decodedResponse[i][1],
             amount |-> decodedResponse[i][2].amount,
             contractId |-> decodedResponse[i][2].contract_id]],
     transactions |-> << >>]

\* the entries put at the front of the list, not at its end
AccountDetails_Unshift(decodedResponse) ==
    [authorizedApps |->
        [i \in 1..Len(decodedResponse) |->
            LET j == Len(decodedResponse) + 1 - i
            IN  [publicKey |-> encodeBufferInBs58(decodedResponse[j][1]),
                 amount |-> decodedResponse[j][2].amount,
                 contractId |-> decodedResponse[j][2].contract_id]],
     transactions |-> << >>]

\* getAccountDetails, lines 156-167: one entry per key of the decoded
\* response, in its iteration order
AccountDetails(decodedResponse) ==
    [authorizedApps |->
        [i \in 1..Len(decodedResponse) |->
            [publicKey |-> encodeBufferInBs58(decodedResponse[i][1]),
             amount |-> decodedResponse[i][2].amount,
             contractId |-> decodedResponse[i][2].contract_id]],
     transactions |-> << >>]

\* ------------------------------------------------------------------- state
VARIABLES
    calls,      \* per caller: the method it runs and where it is suspended
    node,       \* the remote node: per account id, its record on the ledger
    keyStore,   \* per account id, the key pair the client signs with
    removed,    \* per account id, the base58 keys whose removal was accepted
                \* and that were not added again since
    granted,    \* per account id, the <<base58 key, contractId>> of the
                \* accepted scoped addAccessKey calls, until the key is removed
    started     \* the number of calls begun

vars == <<calls, node, keyStore, removed, granted, started>>

NoKeyPair == [publicKey |-> << >>]
\* the key pairs fromRandomSeed may give, by their getPublicKey()
KeyPairs == {[publicKey |-> pk] : pk \in PublicKeyArgs}
Pending == [kind |-> "pending"]
Value(v) == [value |-> v, kind |-> "value"]
Error(e) == [kind |-> "error", error |-> e]

\* a call: the method and its arguments, the locals of the method (nonce,
\* the key pair of createAccountWithRandomKey, the transaction), what the
\* method returned (result) and a log of its requests (about, getNonces,
\* nonceOf, submits, signer, signedWith, response, returned; raced: the
\* callers whose submission with the same nonce of the same account was in
\* flight when this call read its nonce)
IdleCall ==
    [nonce |-> 0, key |-> NoKeyPair, pc |-> "idle", op |-> "none",
     args |-> << >>, random |-> FALSE, tx |-> NoTx, signer |-> "",
     signedWith |-> NoKeyPair, response |-> << >>, result |-> Pending,
     returned |-> Pending, about |-> "", getNonces |-> 0, nonceOf |-> "",
     submits |-> 0, raced |-> {}]

NoAccount ==
    [nonce |-> 0, exists |-> FALSE, balance |-> 0, publicKeys |-> {},
     accessKeys |-> << >>]

\* ------------------------------------------------------------- remote node
\* keys of the ordered access-key store of one account
AccessKeyBytes(acct) == {acct.accessKeys[i][1] : i \in 1..Len(acct.accessKeys)}

ActiveKeys(acct) == acct.publicKeys \cup AccessKeyBytes(acct)

TxAmount(tx) == IF "amount" \in DOMAIN tx THEN tx.amount ELSE 0

\* why the node turns the transaction down, "" when it takes it
Rejection(nd, signerKey, tx) ==
    LET from == nd[tx.originator]
    IN  IF ~from.exists THEN "unknown account"
        ELSE IF signerKey \notin ActiveKeys(from) THEN "invalid signature"
        ELSE IF tx.nonce <= from.nonce THEN "nonce conflict"
        ELSE IF tx.type = "CreateAccount"
        THEN IF nd[tx.newAccountId].exists THEN "account exists"
             ELSE IF TxAmount(tx) > from.balance THEN "insufficient balance"
             ELSE ""
        ELSE IF tx.type = "AddKey"
        THEN IF tx.newKey \in ActiveKeys(from) THEN "key exists" ELSE ""
        ELSE IF tx.curKey \notin ActiveKeys(from) THEN "unknown key" ELSE ""

RECURSIVE WithoutKey(_, _)
WithoutKey(entries, key) ==
    IF entries = << >> THEN << >>
    ELSE IF entries[1][1] = key THEN WithoutKey(Tail(entries), key)
    ELSE <<entries[1]>> \o WithoutKey(Tail(entries), key)

\* the access key as the node stores it
StoredAccessKey(ak) ==
    [amount |-> IF "amount" \in DOMAIN ak THEN ak.amount ELSE 0,
     contract_id |-> ak.contractId.value,
     method_name |-> IF "methodName" \in DOMAIN ak THEN ak.methodName.value ELSE << >>,
     balance_owner |-> IF "balanceOwner" \in DOMAIN ak THEN ak.balanceOwner.value ELSE ""]

\* the ledger after an accepted transaction
Apply(nd, tx) ==
    LET from == [nd[tx.originator] EXCEPT !.nonce = tx.nonce]
    IN  IF tx.type = "CreateAccount"
        THEN [nd EXCEPT ![tx.originator] =
                            [from EXCEPT !.balance = @ - TxAmount(tx)],
                        ![tx.newAccountId] =
                            [nonce |-> 0, exists |-> TRUE,
                             balance |-> TxAmount(tx),
                             publicKeys |-> {tx.publicKey},
                             accessKeys |-> << >>]]
        ELSE IF tx.type = "AddKey"
        THEN IF "accessKey" \in DOMAIN tx
             THEN [nd EXCEPT ![tx.originator] =
                      [from EXCEPT !.accessKeys =
                          Append(@, <<tx.newKey, StoredAccessKey(tx.accessKey)>>)]]
             ELSE [nd EXCEPT ![tx.originator] =
                      [from EXCEPT !.publicKeys = @ \cup {tx.newKey}]]
        ELSE [nd EXCEPT ![tx.originator] =
                 [from EXCEPT !.publicKeys = @ \ {tx.curKey},
                              !.accessKeys = WithoutKey(@, tx.curKey)]]

\* ------------------------------------------------------------- NearClient
\* getNonce: the next nonce the account may use
getNonce(nd, accountId) == nd[accountId].nonce + 1

\* viewAccount
AccountView(nd, accountId) ==
    [nonce |-> nd[accountId].nonce, amount |-> nd[accountId].balance,
     account_id |-> accountId]

\* what the RPC answers to a submission: a status, and whatever other
\* properties the response carries
ResponseKey == [id |-> "response"]

Completed(withKey) ==
    IF withKey THEN [key |-> ResponseKey, status |-> "Completed"]
    ELSE [status |-> "Completed"]

Failed(reason, withKey) ==
    IF withKey THEN [key |-> ResponseKey, status |-> "Failed", reason |-> reason]
    ELSE [status |-> "Failed", reason |-> reason]

\* ----------------------------------------------------------------- Account
\* the account whose nonce the method fetches (lines 30, 70, 107)
NonceAccount(op, args) ==
    IF op = "createAccount" THEN args.originator ELSE args.ownersAccountId

\* the base58 string the method decodes (lines 31, 71, 108)
KeyArgument(op, args) ==
    IF op = "createAccount" THEN args.publicKey
    ELSE IF op = "addAccessKey" THEN args.newPublicKey
    ELSE args.publicKey

\* createAccount signing as the account it creates
SignerAccount_NewAccount(op, args) ==
    IF op = "createAccount" THEN args.newAccountId ELSE args.ownersAccountId

\* the account the method passes to signAndSubmitTransaction (lines 44, 98, 109)
SignerAccount(op, args) ==
    IF op = "createAccount" THEN args.originator ELSE args.ownersAccountId

\* removeAccessKey passing the key as it got it, not decoded
BuildTransaction_KeyNotDecoded(op, args, nonce) ==
    IF op = "createAccount"
    THEN CreateAccountTransaction(nonce, args.originator, args.newAccountId,
                                  bs58decode(args.publicKey), args.amount)
    ELSE IF op = "addAccessKey"
    THEN AddKeyTransaction(nonce, args.ownersAccountId,
                           bs58decode(args.newPublicKey),
                           AccessKey(args.contractId, args.methodName,
                                     args.fundingOwner, args.fundingAmount))
    ELSE DeleteKeyTransaction(nonce, args.ownersAccountId, args.publicKey)

\* the transaction the method builds once it has the nonce
BuildTransaction(op, args, nonce) ==
    IF op = "createAccount"
    THEN CreateAccountTransaction(nonce, args.originator, args.newAccountId,
                                  bs58decode(args.publicKey), args.amount)
    ELSE IF op = "addAccessKey"
    THEN AddKeyTransaction(nonce, args.ownersAccountId,
                           bs58decode(args.newPublicKey),
                           AccessKey(args.contractId, args.methodName,
                                     args.fundingOwner, args.fundingAmount))
    ELSE DeleteKeyTransaction(nonce, args.ownersAccountId,
                              bs58decode(args.publicKey))

\* a rejection turned into an error of this layer
MethodResult_Reinterprets(call, outcome) ==
    IF outcome.kind = "value" /\ outcome.value.status # "Completed"
    THEN Error("RemoteRejection")
    ELSE IF call.random /\ outcome.kind = "value"
    THEN Value(SpreadKeyResult(call.key, outcome.value))
    ELSE outcome

\* what the method hands back for what signAndSubmitTransaction gave it:
\* the three methods return it as it is (lines 44, 98, 109), an error
\* passes through createAccountWithRandomKey (line 130)
MethodResult(call, outcome) ==
    IF call.random /\ outcome.kind = "value"
    THEN Value(SpreadKeyResult(call.key, outcome.value))
    ELSE outcome

\* the call returns: its arguments and its request are gone, the log stays
Finish(call, returned, result) ==
    [call EXCEPT !.pc = "done", !.args = << >>, !.tx = NoTx,
                 !.returned = returned, !.result = result]

CanCall(c) == calls[c].pc \in {"idle", "done"} /\ started < MaxCalls

\* caller c begins a call: the earlier call of c is forgotten
Forget(c, new) ==
    [d \in Callers |-> IF d = c THEN new
                       ELSE [calls[d] EXCEPT !.raced = @ \ {c}]]

Begin(c, op, args, random, key) ==
    /\ CanCall(c)
    /\ calls' = Forget(c, [IdleCall EXCEPT !.pc = "getNonce", !.op = op,
                                           !.args = args, !.random = random,
                                           !.key = key,
                                           !.getNonces = 1,
                                           !.about = NonceAccount(op, args),
                                           !.nonceOf = NonceAccount(op, args)])
    /\ started' = started + 1
    /\ UNCHANGED <<node, keyStore, removed, granted>>

\* createAccount, line 30: the call is suspended on getNonce(originator)
CallCreateAccount(c, newAccountId, publicKey, amount, originator) ==
    Begin(c, "createAccount",
          [originator |-> originator, newAccountId |-> newAccountId,
           publicKey |-> publicKey, amount |-> amount], FALSE, NoKeyPair)

\* addAccessKey, line 70
CallAddAccessKey(c, ownersAccountId, newPublicKey, contractId, methodName, fundingOwner, fundingAmount) ==
    Begin(c, "addAccessKey",
          [contractId |-> contractId, methodName |-> methodName,
           fundingOwner |-> fundingOwner, fundingAmount |-> fundingAmount,
           ownersAccountId |-> ownersAccountId, newPublicKey |-> newPublicKey],
          FALSE, NoKeyPair)

\* removeAccessKey, line 107
CallRemoveAccessKey(c, ownersAccountId, publicKey) ==
    Begin(c, "removeAccessKey",
          [publicKey |-> publicKey, ownersAccountId |-> ownersAccountId],
          FALSE, NoKeyPair)

\* createAccountWithRandomKey, lines 129-135: a fresh key pair, then
\* createAccount with its public key
CallCreateAccountWithRandomKey(c, keyWithRandomSeed, newAccountId, amount, originatorAccountId) ==
    Begin(c, "createAccount",
          [originator |-> originatorAccountId, newAccountId |-> newAccountId,
           publicKey |-> keyWithRandomSeed.publicKey, amount |-> amount],
          TRUE, keyWithRandomSeed)

\* getNonce answers; the method decodes the key, builds the transaction and
\* calls signAndSubmitTransaction, which signs with the signer's stored key
GetNonceResolve(c) ==
    LET call == calls[c]
        nonce == getNonce(node, call.nonceOf)
        signer == SignerAccount(call.op, call.args)
    IN  /\ call.pc = "getNonce"
        /\ node[call.nonceOf].exists
        /\ nonce <= MaxNonce
        /\ calls' = [calls EXCEPT ![c] =
              IF ~IsBase58(KeyArgument(call.op, call.args))
              THEN Finish([call EXCEPT !.nonce = nonce], Pending,
                          Error("DecodeError"))
              ELSE [call EXCEPT !.pc = "submit", !.nonce = nonce,
                                !.tx = BuildTransaction(call.op, call.args, nonce),
                                !.signer = signer,
                                !.signedWith = keyStore[signer],
                                !.submits = @ + 1,
                                !.raced = {d \in Callers \ {c} :
                                             /\ calls[d].pc = "submit"
                                             /\ calls[d].nonceOf = call.nonceOf
                                             /\ calls[d].nonce = nonce}]]
        /\ UNCHANGED <<node, keyStore, removed, granted, started>>

\* getNonce fails: the account is unknown, or the transport failed
GetNonceReject(c) ==
    LET call == calls[c]
    IN  /\ call.pc = "getNonce"
        /\ calls' = [calls EXCEPT ![c] =
              Finish(call, Pending,
                     IF node[call.nonceOf].exists THEN Error("NetworkError")
                     ELSE Error("unknown account"))]
        /\ UNCHANGED <<node, keyStore, removed, granted, started>>

Accepted(outcome) ==
    outcome.kind = "value" /\ outcome.value.status = "Completed"

\* the node handles the signed transaction and its answer comes back
SubmitResolve(c, withKey) ==
    LET call == calls[c]
        why == Rejection(node, bs58decode(call.signedWith.publicKey), call.tx)
        outcome == IF why = "" THEN Value(Completed(withKey))
                   ELSE Value(Failed(why, withKey))
        owner == call.tx.originator
        pub == KeyArgument(call.op, call.args)
    IN  /\ call.pc = "submit"
        /\ call.signedWith # NoKeyPair
        /\ node' = IF why = "" THEN Apply(node, call.tx) ELSE node
        /\ calls' = [calls EXCEPT ![c] =
              Finish(call, outcome, MethodResult(call, outcome))]
        /\ removed' =
              IF why = "" /\ call.op = "removeAccessKey"
              THEN [removed EXCEPT ![owner] = @ \cup {pub}]
              ELSE IF why = "" /\ call.op = "addAccessKey"
              THEN [removed EXCEPT ![owner] = @ \ {pub}]
              ELSE removed
        /\ granted' =
              IF why = "" /\ call.op = "removeAccessKey"
              THEN [granted EXCEPT ![owner] = {g \in @ : g[1] # pub}]
              ELSE IF why = "" /\ call.op = "addAccessKey"
                      /\ call.args.contractId # ""
              THEN [granted EXCEPT ![owner] =
                       @ \cup {<<pub, call.args.contractId>>}]
              ELSE granted
        /\ UNCHANGED <<keyStore, started>>

\* signAndSubmitTransaction fails: no key to sign with, or the transport
SubmitReject(c) ==
    LET call == calls[c]
        outcome == IF call.signedWith = NoKeyPair THEN Error("no key")
                   ELSE Error("NetworkError")
    IN  /\ call.pc = "submit"
        /\ calls' = [calls EXCEPT ![c] =
              Finish(call, outcome, MethodResult(call, outcome))]
        /\ UNCHANGED <<node, keyStore, removed, granted, started>>

\* viewAccount, line 146: the call is suspended on nearClient.viewAccount
CallViewAccount(c, accountId) ==
    /\ CanCall(c)
    /\ calls' = Forget(c, [IdleCall EXCEPT !.pc = "viewAccount",
                                           !.op = "viewAccount",
                                           !.args = [accountId |-> accountId],
                                           !.about = accountId])
    /\ started' = started + 1
    /\ UNCHANGED <<node, keyStore, removed, granted>>

\* nearClient.viewAccount answers with the account, or fails
ViewAccountResolve(c, fails) ==
    LET call == calls[c]
        accountId == call.args.accountId
    IN  /\ call.pc = "viewAccount"
        /\ calls' = [calls EXCEPT ![c] =
              Finish(call, Pending,
                     IF fails THEN Error("NetworkError")
                     ELSE IF node[accountId].exists
                     THEN Value(AccountView(node, accountId))
                     ELSE Error("unknown account"))]
        /\ UNCHANGED <<node, keyStore, removed, granted, started>>

\* getAccountDetails, line 154: suspended on the abci_query request
CallGetAccountDetails(c, accountId) ==
    /\ CanCall(c)
    /\ calls' = Forget(c, [IdleCall EXCEPT !.pc = "getAccountDetails",
                                           !.op = "getAccountDetails",
                                           !.args = [accountId |-> accountId],
                                           !.about = accountId])
    /\ started' = started + 1
    /\ UNCHANGED <<node, keyStore, removed, granted>>

\* the request answers with the access keys stored under
\* access_key/<accountId>; lines 155-167 reshape the decoded response
GetAccountDetailsResolve(c) ==
    LET call == calls[c]
        decodedResponse == node[call.args.accountId].accessKeys
    IN  /\ call.pc = "getAccountDetails"
        /\ calls' = [calls EXCEPT ![c] =
              Finish([call EXCEPT !.response = decodedResponse], Pending,
                     Value(AccountDetails(decodedResponse)))]
        /\ UNCHANGED <<node, keyStore, removed, granted, started>>

\* the request fails
GetAccountDetailsReject(c) ==
    LET call == calls[c]
    IN  /\ call.pc = "getAccountDetails"
        /\ calls' = [calls EXCEPT ![c] =
              Finish(call, Pending, Error("NetworkError"))]
        /\ UNCHANGED <<node, keyStore, removed, granted, started>>

\* keyStore.setKey(accountId, keyPair), as the test setup does at lines 203
\* and 224 once the account it created is on the ledger
SetKey(accountId, keyPair) ==
    /\ node[accountId].exists
    /\ keyStore[accountId] = NoKeyPair
    /\ keyStore' = [keyStore EXCEPT ![accountId] = keyPair]
    /\ UNCHANGED <<calls, node, removed, granted, started>>

\* ------------------------------------------------------------------- spec
\* a funded account whose key the client holds, as in the test setup
Init ==
    /\ calls = [c \in Callers |-> IdleCall]
    /\ node = [a \in AccountIds |->
                 IF a = aliceAccountName
                 THEN [nonce |-> 0, exists |-> TRUE, balance |-> FundedBalance,
                       publicKeys |-> {bs58decode(PK_alice)},
                       accessKeys |-> << >>]
                 ELSE NoAccount]
    /\ keyStore = [a \in AccountIds |->
                     IF a = aliceAccountName THEN [publicKey |-> PK_alice]
                     ELSE NoKeyPair]
    /\ removed = [a \in AccountIds |-> {}]
    /\ granted = [a \in AccountIds |-> {}]
    /\ started = 0

\* callers side by side
Next ==
    \/ \E c \in Callers, newAccountId \in NewAccountIds,
          publicKey \in PublicKeyArgs, amount \in Amounts,
          originator \in AccountIds :
          CallCreateAccount(c, newAccountId, publicKey, amount, originator)
    \/ \E c \in Callers, ownersAccountId \in AccountIds,
          newPublicKey \in PublicKeyArgs, scope \in Scopes :
          CallAddAccessKey(c, ownersAccountId, newPublicKey, scope[1],
                           scope[2], scope[3], scope[4])
    \/ \E c \in Callers, ownersAccountId \in AccountIds,
          publicKey \in PublicKeyArgs :
          CallRemoveAccessKey(c, ownersAccountId, publicKey)
    \/ \E c \in Callers : GetNonceResolve(c)
    \/ \E c \in Callers : GetNonceReject(c)
    \/ \E c \in Callers : SubmitResolve(c, FALSE)
    \/ \E c \in Callers : SubmitReject(c)
    \/ \E c \in Callers, accountId \in AccountIds : CallViewAccount(c, accountId)
    \/ \E c \in Callers, fails \in BOOLEAN : ViewAccountResolve(c, fails)
    \/ \E c \in Callers, accountId \in AccountIds :
          CallGetAccountDetails(c, accountId)
    \/ \E c \in Callers : GetAccountDetailsResolve(c)
    \/ \E c \in Callers : GetAccountDetailsReject(c)
    \/ \E accountId \in AccountIds, keyPair \in KeyPairs :
          SetKey(accountId, keyPair)

Spec == Init /\ [][Next]_vars

\* one call of one caller, over the wider inputs
CallNext ==
    \/ \E newAccountId \in NewAccountIds, publicKey \in AllPublicKeyArgs,
          amount \in AllAmounts, originator \in AccountIds :
          started = 0 /\
          CallCreateAccount(1, newAccountId, publicKey, amount, originator)
    \/ \E ownersAccountId \in AccountIds, newPublicKey \in AllPublicKeyArgs,
          contractId \in ContractIds, methodName \in MethodNames,
          fundingOwner \in FundingOwners, fundingAmount \in FundingAmounts :
          started = 0 /\
          CallAddAccessKey(1, ownersAccountId, newPublicKey, contractId,
                           methodName, fundingOwner, fundingAmount)
    \/ \E ownersAccountId \in AccountIds, publicKey \in AllPublicKeyArgs :
          started = 0 /\ CallRemoveAccessKey(1, ownersAccountId, publicKey)
    \/ \E keyWithRandomSeed \in KeyPairs, newAccountId \in NewAccountIds,
          amount \in AllAmounts, originatorAccountId \in AccountIds :
          started = 0 /\
          CallCreateAccountWithRandomKey(1, keyWithRandomSeed, newAccountId,
                                         amount, originatorAccountId)
    \/ GetNonceResolve(1)
    \/ GetNonceReject(1)
    \/ \E withKey \in BOOLEAN : SubmitResolve(1, withKey)
    \/ SubmitReject(1)

CallSpec == Init /\ [][CallNext]_vars

TypeOK ==
    /\ \A c \in Callers : calls[c].pc \in
          {"getNonce", "idle", "done", "submit", "viewAccount", "getAccountDetails"}
    /\ \A a \in AccountIds : node[a].nonce \in 0..MaxNonce

\* ------------------------------------------------------------------ claims
Mutating == {"createAccount", "addAccessKey", "removeAccessKey"}

Done(c) == calls[c].pc = "done"

\* c1 read its nonce while the submission of c2, for the same account and
\* with the same nonce, was in flight; both calls have returned
RaceOver(c1, c2) ==
    /\ c1 # c2
    /\ c2 \in calls[c1].raced
    /\ Done(c1) /\ Done(c2)

Rejected(outcome) ==
    outcome.kind = "value" /\ outcome.value.status = "Failed"

\* C1 as stated: of two calls that raced with the same nonce and that the
\* node both answered, the node accepts exactly one, and the other call
\* returns the rejection.
C1_ExactlyOneAccepted ==
    \A c1, c2 \in Callers :
        (/\ RaceOver(c1, c2)
         /\ calls[c1].returned.kind = "value"
         /\ calls[c2].returned.kind = "value")
        => \/ /\ Accepted(calls[c1].returned)
              /\ Rejected(calls[c2].returned)
              /\ calls[c2].result = calls[c2].returned
           \/ /\ Accepted(calls[c2].returned)
              /\ Rejected(calls[c1].returned)
              /\ calls[c1].result = calls[c1].returned

\* C1 (amended): of two calls that raced with the same nonce of the same
\* originator, the node accepts at most one, and each call whose submission
\* was not accepted returns to its caller what the submission gave it.
C1_AtMostOneAccepted ==
    \A c1, c2 \in Callers :
        RaceOver(c1, c2)
        => /\ ~(Accepted(calls[c1].returned) /\ Accepted(calls[c2].returned))
           /\ \A c \in {c1, c2} :
                 ~Accepted(calls[c].returned)
                 => /\ calls[c].result = calls[c].returned
                    /\ calls[c].result.kind = "value" => Rejected(calls[c].result)

C1_Witness ==
    \E c1, c2 \in Callers :
        /\ RaceOver(c1, c2)
        /\ calls[c1].nonce = calls[c2].nonce
        /\ calls[c1].submits = 1 /\ calls[c2].submits = 1
        /\ Accepted(calls[c2].returned)
        /\ calls[c1].returned = Value(Failed("nonce conflict", FALSE))
        /\ calls[c1].result = calls[c1].returned

\* C2: the CreateAccount payload handed to signAndSubmitTransaction has no
\* amount field when amount = 0 and the amount field k when amount = k > 0.
C2_AmountField ==
    \A c \in Callers :
        (calls[c].pc = "submit" /\ calls[c].op = "createAccount")
        => /\ calls[c].args.amount = 0 => "amount" \notin DOMAIN calls[c].tx
           /\ calls[c].args.amount > 0
              => /\ "amount" \in DOMAIN calls[c].tx
                 /\ calls[c].tx.amount = calls[c].args.amount

C2_Witness ==
    \E c \in Callers :
        /\ calls[c].pc = "submit" /\ calls[c].op = "createAccount"
        /\ calls[c].args.amount = 0
        /\ DOMAIN calls[c].tx =
              {"type", "nonce", "originator", "newAccountId", "publicKey"}

C4_NoRetry ==
    [][\A c \in Callers :
          LET a == calls[c]
              b == calls'[c]
          IN  (a.op \in Mutating /\ ~a.random /\ b # a)
              => /\ b.submits <= 1
                 /\ a.pc = "getNonce"
                    => /\ ~node[a.nonceOf].exists
                          => b.pc = "done" /\ b.result = Error("unknown account")
                       /\ (node[a.nonceOf].exists
                           /\ ~IsBase58(KeyArgument(a.op, a.args)))
                          => /\ b.pc = "done"
                             /\ b.result \in {Error("DecodeError"),
                                              Error("NetworkError")}
                       /\ b.pc = "done"
                          => /\ b.result.kind = "error"
                             /\ b.submits = 0 /\ b.returned = Pending
                       /\ b.pc # "done" => b.pc = "submit" /\ b.submits = 1
                 /\ a.pc = "submit"
                    => /\ b.pc = "done" /\ b.submits = 1
                       /\ b.returned # Pending
                       /\ b.result = b.returned
                 /\ a.pc = "done" => started' = started + 1]_vars

C4_Witness ==
    \E c \in Callers :
        /\ Done(c) /\ calls[c].op = "removeAccessKey"
        /\ calls[c].submits = 1
        /\ Rejected(calls[c].returned)
        /\ calls[c].result = calls[c].returned

\* the transactions an account may be the originator of
TransactionsOf(a) ==
    UNION {{CreateAccountTransaction(n, a, "A", bs58decode(k), 1000),
            AddKeyTransaction(n, a, bs58decode(k), Undefined),
            DeleteKeyTransaction(n, a, bs58decode(k))} :
           n \in 1..(MaxNonce + 1), k \in AllPublicKeyArgs \ {PK_bad}}

\* C5: once a removeAccessKey(A, pub) was accepted, and until pub is added
\* again, the node rejects every transaction of A that is signed with pub.
C5_RemovedKeyRejected ==
    \A a \in AccountIds : \A pub \in removed[a] : \A tx \in TransactionsOf(a) :
        Rejection(node, bs58decode(pub), tx) # ""

C5_Witness ==
    \E c \in Callers :
        /\ Done(c) /\ calls[c].submits = 1
        /\ calls[c].signedWith.publicKey \in removed[calls[c].signer]
        /\ calls[c].returned = Value(Failed("invalid signature", FALSE))

\* C6: when a createAccount(A, pk, amount, O) is accepted, the nonce of O
\* is one more than the nonce the call read, and A is on the ledger; an
\* account on the ledger stays there, and a viewAccount of it that is
\* answered reports it.
C6_CreateAccountEffect ==
    [][/\ \A c \in Callers :
             LET a == calls[c]
                 b == calls'[c]
             IN  /\ (/\ a.pc = "submit" /\ a.op = "createAccount"
                     /\ b.pc = "done" /\ Accepted(b.returned))
                    => /\ getNonce(node', a.args.originator) = a.nonce + 1
                       /\ node'[a.args.newAccountId].exists
                 /\ (/\ a.pc = "viewAccount" /\ b.pc = "done"
                     /\ node[a.about].exists
                     /\ b.result # Error("NetworkError"))
                    => /\ b.result.kind = "value"
                       /\ b.result.value.account_id = a.about
       /\ \A acc \in AccountIds : node[acc].exists => node'[acc].exists]_vars

C6_Witness ==
    \E c1, c2 \in Callers :
        /\ Done(c1) /\ calls[c1].op = "createAccount"
        /\ Accepted(calls[c1].returned)
        /\ getNonce(node, calls[c1].nonceOf) = calls[c1].nonce + 1
        /\ node["A"].balance = 1000
        /\ Done(c2) /\ calls[c2].op = "viewAccount" /\ calls[c2].about = "A"
        /\ calls[c2].result.kind = "value"
        /\ calls[c2].result.value.account_id = "A"

\* what getAccountDetails(a) returns from the ledger as it is
DetailsNow(a) == AccountDetails(node[a].accessKeys)

\* C7: after an addAccessKey(A, pub, contractId, ...) with a contractId was
\* accepted, and until pub is removed, getAccountDetails(A) lists an entry
\* with that contractId whose publicKey is the string pub.
C7_GrantedKeyListed ==
    \A a \in AccountIds : \A g \in granted[a] :
        \E i \in 1..Len(DetailsNow(a).authorizedApps) :
            /\ DetailsNow(a).authorizedApps[i].contractId = g[2]
            /\ DetailsNow(a).authorizedApps[i].publicKey = g[1]

C7_Witness ==
    \E c \in Callers :
        /\ Done(c) /\ calls[c].op = "getAccountDetails"
        /\ calls[c].result.kind = "value"
        /\ <<PK_2, "contractX">> \in granted[calls[c].about]
        /\ \E i \in 1..Len(calls[c].result.value.authorizedApps) :
              /\ calls[c].result.value.authorizedApps[i].contractId = "contractX"
              /\ calls[c].result.value.authorizedApps[i].publicKey = PK_2
              /\ calls[c].response[i][1] = <<0, 1, 0>>

\* C8: getAccountDetails returns no transactions and one entry
\* {contractId, amount, publicKey} per key of the decoded response, in the
\* order of the response.
C8_OneEntryPerKey ==
    \A c \in Callers :
        (Done(c) /\ calls[c].op = "getAccountDetails"
         /\ calls[c].result.kind = "value")
        => LET r == calls[c].result.value
               resp == calls[c].response
           IN  /\ DOMAIN r = {"authorizedApps", "transactions"}
               /\ r.transactions = << >>
               /\ Len(r.authorizedApps) = Len(resp)
               /\ \A i \in 1..Len(resp) :
                     /\ DOMAIN r.authorizedApps[i] =
                           {"publicKey", "amount", "contractId"}
                     /\ r.authorizedApps[i].contractId = resp[i][2].contract_id
                     /\ r.authorizedApps[i].amount = resp[i][2].amount
                     /\ IsBase58(r.authorizedApps[i].publicKey)
                     /\ bs58decode(r.authorizedApps[i].publicKey) = resp[i][1]

C8_Witness ==
    \E c \in Callers :
        /\ Done(c) /\ calls[c].op = "getAccountDetails"
        /\ calls[c].result.kind = "value"
        /\ Len(calls[c].response) = 2
        /\ calls[c].result.value.authorizedApps[1].publicKey
              # calls[c].result.value.authorizedApps[2].publicKey
        /\ node[calls[c].about].nonce = 2

\* C9 as stated: whatever the submission answered, what
\* createAccountWithRandomKey returns has the fields of the createAccount
\* result, and its key is the generated key pair.
C9_KeyIsGenerated ==
    \A c \in Callers :
        (Done(c) /\ calls[c].random /\ calls[c].result.kind = "value")
        => /\ calls[c].result.value.key = calls[c].key
           /\ \A f \in DOMAIN calls[c].returned.value \ {"key"} :
                 /\ f \in DOMAIN calls[c].result.value
                 /\ calls[c].result.value[f] = calls[c].returned.value[f]

\* C10: with a contractId, the AccessKey has the contractId; methodName iff
\* the method name is non-empty; balanceOwner, the funding owner, iff that
\* is non-empty; amount, the funding amount, iff that is above zero.
C10_AccessKeyFields ==
    \A c \in Callers :
        (/\ calls[c].pc = "submit" /\ calls[c].op = "addAccessKey"
         /\ calls[c].args.contractId # "")
        => /\ "accessKey" \in DOMAIN calls[c].tx
           /\ LET ak == calls[c].tx.accessKey
                  args == calls[c].args
              IN  /\ "contractId" \in DOMAIN ak
                  /\ ak.contractId.value = args.contractId
                  /\ "methodName" \in DOMAIN ak <=> args.methodName # << >>
                  /\ "balanceOwner" \in DOMAIN ak <=> args.fundingOwner # ""
                  /\ "balanceOwner" \in DOMAIN ak
                     => ak.balanceOwner.value = args.fundingOwner
                  /\ "amount" \in DOMAIN ak <=> args.fundingAmount > 0
                  /\ "amount" \in DOMAIN ak => ak.amount = args.fundingAmount

C10_Witness ==
    \E c \in Callers :
        /\ calls[c].pc = "submit" /\ calls[c].op = "addAccessKey"
        /\ calls[c].args.contractId # ""
        /\ calls[c].args.methodName # << >>
        /\ calls[c].args.fundingOwner = ""
        /\ calls[c].args.fundingAmount < 0
        /\ DOMAIN calls[c].tx.accessKey = {"contractId", "methodName"}

\* C11: in a call of createAccount, addAccessKey or removeAccessKey the
\* submission follows exactly one getNonce of that call and is the only
\* submission of the call; the getNonce and the submission are made for the
\* same account; the originator of the submitted transaction is the signer
\* account handed to signAndSubmitTransaction; its nonce is the value the
\* getNonce of this call answered, that is the one the node gave for that
\* account when it answered, and it stays so while the submission is
\* pending; after the submission the call makes no further request.
C11_NonceFlow ==
    [][\A c \in Callers :
          LET a == calls[c]
              b == calls'[c]
          IN  (a.op \in Mutating /\ b # a)
              => /\ (a.pc = "getNonce" /\ b.pc = "submit")
                    => /\ a.getNonces = 1 /\ a.submits = 0
                       /\ b.getNonces = 1 /\ b.submits = 1
                       /\ b.signer = a.nonceOf
                       /\ b.tx.originator = b.signer
                       /\ b.nonce = getNonce(node, a.nonceOf)
                       /\ b.tx.nonce = b.nonce
                 /\ a.pc = "submit"
                    => /\ a.tx.originator = a.signer
                       /\ a.signer = a.nonceOf
                       /\ a.tx.nonce = a.nonce
                       /\ b.pc \in {"done", "submit"}
                       /\ b.pc = "submit" => b.tx = a.tx
                       /\ b.getNonces = 1 /\ b.submits = 1
                       /\ b.nonce = a.nonce /\ b.signer = a.signer]_vars

\* two submissions for the same account are pending, each with the nonce its
\* own getNonce answered, and the two nonces differ
C11_Witness ==
    \E c1, c2 \in Callers :
        /\ c1 # c2
        /\ calls[c1].pc = "submit" /\ calls[c2].pc = "submit"
        /\ calls[c1].op = "createAccount" /\ calls[c2].op \in Mutating
        /\ calls[c1].nonceOf = calls[c2].nonceOf
        /\ calls[c1].getNonces = 1 /\ calls[c2].getNonces = 1
        /\ calls[c1].tx.nonce = calls[c1].nonce
        /\ calls[c2].tx.nonce = calls[c2].nonce
        /\ calls[c1].tx.originator = calls[c1].signer
        /\ calls[c2].tx.originator = calls[c2].signer
        /\ calls[c1].nonce # calls[c2].nonce

====
